---------------------------- MODULE Spec2Model ----------------------------
(***************************************************************************)
(* Model of the emoji-commit-type crate (src/src/lib.rs): the BumpLevel    *)
(* and CommitType enumerations, their lookup tables, the navigation        *)
(* functions and the CommitTypeIterator cursor.                            *)
(*                                                                         *)
(* Values.  An enum variant is a string "Enum::Variant".  Option<T> is a   *)
(* sequence of length at most one: None is << >> and Some(x) is << x >>.   *)
(* A &'static str made of ASCII characters is a TLA+ string; the emoji     *)
(* literals are sequences of the Unicode scalar values the literal holds   *)
(* (what str::chars() yields), so that their length and content are part   *)
(* of the model.                                                           *)
(***************************************************************************)
EXTENDS Integers, Sequences, FiniteSets, TLC

\* Number of iterator instances a run may construct.
NumIters == 2

\* Number of next() calls a run may make on one iterator instance.
MaxCalls == 7

IterIds == 1..NumIters

---------------------------------------------------------------------------
\* Option<T>

None == << >>

Some(x) == << x >>

---------------------------------------------------------------------------
\* enum BumpLevel

Major == "BumpLevel::Major"

Minor == "BumpLevel::Minor"

Patch == "BumpLevel::Patch"

BumpNone == "BumpLevel::None"

BumpLevel == {Major, Minor, Patch, BumpNone}

name_swapped(self) ==
    CASE self = Major -> "Major"
      [] self = Minor -> "Minor"
      [] self = Patch -> "None"
      [] self = BumpNone -> "Patch"

\* BumpLevel::name
name(self) ==
    CASE self = Major -> "Major"
      [] self = Minor -> "Minor"
      [] self = Patch -> "Patch"
      [] self = BumpNone -> "None"

---------------------------------------------------------------------------
\* enum CommitType

Breaking == "CommitType::Breaking"

Feature == "CommitType::Feature"

Bugfix == "CommitType::Bugfix"

Other == "CommitType::Other"

Meta == "CommitType::Meta"

CommitType == {Breaking, Feature, Bugfix, Other, Meta}

\* CommitType::first_variant
first_variant == Breaking

\* CommitType::last_variant
last_variant == Meta

next_variant_skip(self) ==
    CASE self = Breaking -> Some(Feature)
      [] self = Feature -> Some(Other)
      [] self = Bugfix -> Some(Other)
      [] self = Other -> Some(Meta)
      [] self = Meta -> None

next_variant_wrap(self) ==
    CASE self = Breaking -> Some(Feature)
      [] self = Feature -> Some(Bugfix)
      [] self = Bugfix -> Some(Other)
      [] self = Other -> Some(Meta)
      [] self = Meta -> Some(Breaking)

\* CommitType::next_variant
next_variant(self) ==
    CASE self = Breaking -> Some(Feature)
      [] self = Feature -> Some(Bugfix)
      [] self = Bugfix -> Some(Other)
      [] self = Other -> Some(Meta)
      [] self = Meta -> None

prev_variant_stuck(self) ==
    CASE self = Breaking -> None
      [] self = Feature -> Some(Breaking)
      [] self = Bugfix -> Some(Feature)
      [] self = Other -> Some(Feature)
      [] self = Meta -> Some(Other)

\* CommitType::prev_variant
prev_variant(self) ==
    CASE self = Breaking -> None
      [] self = Feature -> Some(Breaking)
      [] self = Bugfix -> Some(Feature)
      [] self = Other -> Some(Bugfix)
      [] self = Meta -> Some(Other)

\* CommitType::emoji.  Each literal is written as the Unicode scalar values
\* the source file holds between the quotes: four per literal, U+F8FF,
\* U+00FC and two more.  (They are what the four UTF-8 bytes of one emoji,
\* F0 9F xx yy, give when read as Mac OS Roman: F0 -> U+F8FF, 9F -> U+00FC.)
emoji(self) ==
    CASE self = Breaking -> << 63743, 252, 237, 8226 >>
      [] self = Feature -> << 63743, 252, 233, 226 >>
      [] self = Bugfix -> << 63743, 252, 234, 245 >>
      [] self = Other -> << 63743, 252, 238, 8226 >>
      [] self = Meta -> << 63743, 252, 229, 960 >>

bump_level_other_none(self) ==
    CASE self = Breaking -> Major
      [] self = Feature -> Minor
      [] self = Bugfix -> Patch
      [] self = Other -> BumpNone
      [] self = Meta -> BumpNone

\* CommitType::bump_level
bump_level(self) ==
    CASE self = Breaking -> Major
      [] self = Feature -> Minor
      [] self = Bugfix -> Patch
      [] self = Other -> Patch
      [] self = Meta -> BumpNone

description_mixed(self) ==
    CASE self = Breaking -> "Breaking change (SemVer: Major)"
      [] self = Feature -> "New functionality"
      [] self = Bugfix -> "Bugfix"
      [] self = Other -> "Cleanup / Performance"
      [] self = Meta -> "Meta"

\* CommitType::description
description(self) ==
    CASE self = Breaking -> "Breaking change"
      [] self = Feature -> "New functionality"
      [] self = Bugfix -> "Bugfix"
      [] self = Other -> "Cleanup / Performance"
      [] self = Meta -> "Meta"

---------------------------------------------------------------------------
\* struct CommitTypeIterator { current: Option<CommitType> }

CommitTypeIterator == [current : {None} \cup {Some(c) : c \in CommitType}]

\* CommitType::iter_variants
iter_variants == [current |-> Some(first_variant)]

next_restart(self) ==
    CASE self.current # None ->
           [ret |-> self.current,
            self |-> [current |-> next_variant(self.current[1])]]
      [] OTHER -> [ret |-> None, self |-> [current |-> Some(first_variant)]]

\* Iterator::next for CommitTypeIterator: the value returned (mem::replace
\* hands back the old cursor) and the iterator after the call.
next(self) ==
    CASE self.current # None ->
           [ret |-> self.current,
            self |-> [current |-> next_variant(self.current[1])]]
      [] OTHER -> [ret |-> None, self |-> self]

size_hint_lower_only(self) ==
    CASE self.current = Some(Breaking) -> << 5, None >>
      [] self.current = Some(Feature) -> << 4, None >>
      [] self.current = Some(Bugfix) -> << 3, None >>
      [] self.current = Some(Other) -> << 2, None >>
      [] self.current = Some(Meta) -> << 1, None >>
      [] self.current = None -> << 0, None >>

\* Iterator::size_hint for CommitTypeIterator
size_hint(self) ==
    CASE self.current = Some(Breaking) -> << 5, Some(5) >>
      [] self.current = Some(Feature) -> << 4, Some(4) >>
      [] self.current = Some(Bugfix) -> << 3, Some(3) >>
      [] self.current = Some(Other) -> << 2, Some(2) >>
      [] self.current = Some(Meta) -> << 1, Some(1) >>
      [] self.current = None -> << 0, Some(0) >>

\* ExactSizeIterator::len for CommitTypeIterator
len(self) == 5

---------------------------------------------------------------------------
\* State.
\*   iters   : the iterator instances constructed so far, by instance id
\*   results : per instance, the values its next() calls returned, in order
\*   ret     : the last call made: its operation, its argument (an instance
\*             id, an enum value, or "" for none) and its return value

VARIABLES iters, results, ret

vars == << iters, results, ret >>

Init ==
    /\ iters = << >>
    /\ results = << >>
    /\ ret = [op |-> "init", arg |-> "", val |-> ""]

\* let mut iter = CommitType::iter_variants();
IterVariants(i) ==
    /\ i \notin DOMAIN iters
    /\ iters' = (i :> iter_variants) @@ iters
    /\ results' = (i :> << >>) @@ results
    /\ ret' = [op |-> "iter_variants", arg |-> i, val |-> iter_variants]

\* iter.next()
IterNext(i) ==
    /\ i \in DOMAIN iters
    /\ Len(results[i]) < MaxCalls
    /\ iters' = [iters EXCEPT ![i] = next(iters[i]).self]
    /\ results' = [results EXCEPT ![i] = Append(@, next(iters[i]).ret)]
    /\ ret' = [op |-> "next", arg |-> i, val |-> next(iters[i]).ret]

\* iter.size_hint()
IterSizeHint(i) ==
    /\ i \in DOMAIN iters
    /\ ret' = [op |-> "size_hint", arg |-> i, val |-> size_hint(iters[i])]
    /\ UNCHANGED << iters, results >>

\* iter.len()
IterLen(i) ==
    /\ i \in DOMAIN iters
    /\ ret' = [op |-> "len", arg |-> i, val |-> len(iters[i])]
    /\ UNCHANGED << iters, results >>

\* CommitType::first_variant()
CallFirstVariant ==
    /\ ret' = [op |-> "first_variant", arg |-> "", val |-> first_variant]
    /\ UNCHANGED << iters, results >>

\* CommitType::last_variant()
CallLastVariant ==
    /\ ret' = [op |-> "last_variant", arg |-> "", val |-> last_variant]
    /\ UNCHANGED << iters, results >>

\* c.next_variant()
CallNextVariant(c) ==
    /\ ret' = [op |-> "next_variant", arg |-> c, val |-> next_variant(c)]
    /\ UNCHANGED << iters, results >>

\* c.prev_variant()
CallPrevVariant(c) ==
    /\ ret' = [op |-> "prev_variant", arg |-> c, val |-> prev_variant(c)]
    /\ UNCHANGED << iters, results >>

\* c.emoji()
CallEmoji(c) ==
    /\ ret' = [op |-> "emoji", arg |-> c, val |-> emoji(c)]
    /\ UNCHANGED << iters, results >>

\* c.bump_level()
CallBumpLevel(c) ==
    /\ ret' = [op |-> "bump_level", arg |-> c, val |-> bump_level(c)]
    /\ UNCHANGED << iters, results >>

\* c.description()
CallDescription(c) ==
    /\ ret' = [op |-> "description", arg |-> c, val |-> description(c)]
    /\ UNCHANGED << iters, results >>

\* b.name()
CallName(b) ==
    /\ ret' = [op |-> "name", arg |-> b, val |-> name(b)]
    /\ UNCHANGED << iters, results >>

\* c.bump_level().name()
CallBumpLevelName(c) ==
    /\ ret' = [op |-> "bump_level.name", arg |-> c, val |-> name(bump_level(c))]
    /\ UNCHANGED << iters, results >>

Next ==
    \/ \E i \in IterIds : IterVariants(i)
    \/ \E i \in IterIds : IterNext(i)
    \/ \E i \in IterIds : IterSizeHint(i)
    \/ \E i \in IterIds : IterLen(i)
    \/ CallFirstVariant
    \/ CallLastVariant
    \/ \E c \in CommitType : CallNextVariant(c)
    \/ \E c \in CommitType : CallPrevVariant(c)
    \/ \E c \in CommitType : CallEmoji(c)
    \/ \E c \in CommitType : CallBumpLevel(c)
    \/ \E c \in CommitType : CallDescription(c)
    \/ \E b \in BumpLevel : CallName(b)
    \/ \E c \in CommitType : CallBumpLevelName(c)

Spec == Init /\ [][Next]_vars

---------------------------------------------------------------------------
\* What the specification states, for the claims below.

\* The canonical order of the categories (positions 1 to 5).
Canonical == << Breaking, Feature, Bugfix, Other, Meta >>

NumCategories == Len(Canonical)

\* Position of a category in the canonical order.
Rank(c) == CHOOSE k \in 1..NumCategories : Canonical[k] = c

\* Position of a cursor: the rank of its category, one past the end when
\* exhausted.
Pos(it) == IF it.current = None THEN NumCategories + 1 ELSE Rank(it.current[1])

\* The categories instance i has produced so far, in order.
Yielded(i) == SelectSeq(results[i], LAMBDA r : r # None)

\* Number of elements instance i has produced so far.
Produced(i) == Len(Yielded(i))

\* Number of further next() calls on `self` that return a category.
RECURSIVE Remaining(_)
Remaining(self) ==
    IF next(self).ret = None THEN 0 ELSE 1 + Remaining(next(self).self)

\* The value the k-th next() call on a fresh iterator is to return.
ExpectedResult(k) == IF k <= NumCategories THEN Some(Canonical[k]) ELSE None

\* The bump-level table of the specification.
BumpTable(c) ==
    CASE c = Breaking -> Major
      [] c = Feature -> Minor
      [] c = Bugfix -> Patch
      [] c = Other -> Patch
      [] c = Meta -> BumpNone

\* The emoji table of the specification, one scalar value per glyph:
\* U+1F4A5, U+1F389, U+1F41B, U+1F525, U+1F339.
EmojiTable(c) ==
    CASE c = Breaking -> << 128165 >>
      [] c = Feature -> << 127881 >>
      [] c = Bugfix -> << 128027 >>
      [] c = Other -> << 128293 >>
      [] c = Meta -> << 127801 >>

\* The bare-label description table of the specification.
BareLabel(c) ==
    CASE c = Breaking -> "Breaking change"
      [] c = Feature -> "New functionality"
      [] c = Bugfix -> "Bugfix"
      [] c = Other -> "Cleanup / Performance"
      [] c = Meta -> "Meta"

\* The suffixes the SemVer-annotated description table adds to a label.
SemVerSuffixes ==
    {" (SemVer: Major)", " (SemVer: Minor)", " (SemVer: Patch)",
     " (SemVer: None)"}

---------------------------------------------------------------------------
\* C1: from a fresh iter_variants() instance, successive next() calls return
\* Breaking, Feature, Bugfix, Other, Meta in that order, each once, and every
\* later call returns None; an exhausted cursor stays exhausted.
C1_YieldsInOrderThenNone ==
    /\ [](\A i \in DOMAIN iters :
            \A k \in 1..Len(results[i]) : results[i][k] = ExpectedResult(k))
    /\ [][\A i \in DOMAIN iters :
            iters[i].current = None => iters'[i].current = None]_vars

C1_Witness ==
    \E i \in DOMAIN iters :
        /\ Len(results[i]) >= 7
        /\ SubSeq(results[i], 1, 7) =
             << Some(Breaking), Some(Feature), Some(Bugfix), Some(Other),
                Some(Meta), None, None >>
        /\ iters[i].current = None

\* C2: after any number of next() calls on a fresh iterator, len() reports
\* 5 minus the number of elements already produced.
C2_LenIsRemaining ==
    ret.op = "len" => ret.val = NumCategories - Produced(ret.arg)

\* C3: in every reachable iterator state size_hint() is (n, Some(n)) where n
\* is 5 minus the number of elements produced, which is the number of further
\* next() calls that return a category; size_hint() leaves the cursor alone.
C3_SizeHintExact ==
    /\ [](\A i \in DOMAIN iters :
            LET n == NumCategories - Produced(i)
            IN  /\ size_hint(iters[i]) = << n, Some(n) >>
                /\ n = Remaining(iters[i]))
    /\ [](ret.op = "size_hint" =>
            ret.val = << Remaining(iters[ret.arg]),
                         Some(NumCategories - Produced(ret.arg)) >>)
    /\ [][ret'.op = "size_hint" => iters' = iters /\ results' = results]_vars

C3_Witness ==
    /\ ret.op = "size_hint"
    /\ ret.val = << 2, Some(2) >>
    /\ Produced(ret.arg) = 3
    /\ \E j \in DOMAIN iters : iters[j].current = None /\ Produced(j) = 5

\* C4: navigation follows the canonical order: next_variant(c) is the
\* category right after c and is None exactly for Meta, prev_variant(c) is
\* the category right before c and is None exactly for Breaking,
\* first_variant() is Breaking and last_variant() is Meta.
C4_NavigationFollowsOrder ==
    /\ \A c \in CommitType :
         /\ next_variant(c) =
              IF Rank(c) < NumCategories THEN Some(Canonical[Rank(c) + 1])
              ELSE None
         /\ prev_variant(c) =
              IF Rank(c) > 1 THEN Some(Canonical[Rank(c) - 1]) ELSE None
         /\ (next_variant(c) = None) <=> (c = Meta)
         /\ (prev_variant(c) = None) <=> (c = Breaking)
    /\ first_variant = Breaking /\ first_variant = Canonical[1]
    /\ last_variant = Meta /\ last_variant = Canonical[NumCategories]
    /\ ret.op = "next_variant" =>
         ret.val = IF ret.arg = Meta THEN None
                   ELSE Some(Canonical[Rank(ret.arg) + 1])
    /\ ret.op = "prev_variant" =>
         ret.val = IF ret.arg = Breaking THEN None
                   ELSE Some(Canonical[Rank(ret.arg) - 1])
    /\ ret.op = "first_variant" => ret.val = Breaking
    /\ ret.op = "last_variant" => ret.val = Meta

C4_Witness ==
    /\ ret.op = "next_variant"
    /\ ret.arg = Meta
    /\ ret.val = None

\* C5: inverse navigation law: if prev_variant(c) = Some(p) then
\* next_variant(p) = Some(c), and if next_variant(c) = Some(n) then
\* prev_variant(n) = Some(c).
C5_InverseNavigation ==
    /\ \A c \in CommitType :
         /\ prev_variant(c) # None =>
              next_variant(prev_variant(c)[1]) = Some(c)
         /\ next_variant(c) # None =>
              prev_variant(next_variant(c)[1]) = Some(c)
    /\ (ret.op = "prev_variant" /\ ret.val # None) =>
         next_variant(ret.val[1]) = Some(ret.arg)
    /\ (ret.op = "next_variant" /\ ret.val # None) =>
         prev_variant(ret.val[1]) = Some(ret.arg)

C5_Witness ==
    /\ ret.op = "prev_variant"
    /\ ret.arg = Other
    /\ ret.val = Some(Bugfix)
    /\ next_variant(Bugfix) = Some(Other)

\* C6: bump_level equals the table Breaking->Major, Feature->Minor,
\* Bugfix->Patch, Other->Patch, Meta->None; Breaking is the only category
\* mapped to Major, and Bugfix and Other are the only two categories sharing
\* a bump level.
C6_BumpLevelTable ==
    /\ \A c \in CommitType :
         bump_level(c) \in BumpLevel /\ bump_level(c) = BumpTable(c)
    /\ {c \in CommitType : bump_level(c) = Major} = {Breaking}
    /\ \A c, d \in CommitType :
         (c # d /\ bump_level(c) = bump_level(d)) =>
             ({c, d} = {Bugfix, Other} /\ bump_level(c) = Patch)
    /\ bump_level(Bugfix) = bump_level(Other)
    /\ ret.op = "bump_level" => ret.val = BumpTable(ret.arg)

C6_Witness ==
    /\ ret.op = "bump_level"
    /\ ret.arg = Other
    /\ ret.val = Patch

\* C7: emoji equals the table Breaking: U+1F4A5, Feature: U+1F389,
\* Bugfix: U+1F41B, Other: U+1F525, Meta: U+1F339, each value a single
\* glyph, no two categories sharing an emoji.
C7_EmojiTable ==
    /\ ret.op = "emoji" =>
         /\ ret.val = EmojiTable(ret.arg)
         /\ Len(ret.val) = 1
    /\ \A c, d \in CommitType : c # d => emoji(c) # emoji(d)

\* C8: name() returns each bump level's own identifier, so it is injective,
\* and bump_level(c).name() is the identifier of the table's level for c.
C8_NameIsIdentifier ==
    /\ \A b \in BumpLevel : "BumpLevel::" \o name(b) = b
    /\ name(Major) = "Major" /\ name(Minor) = "Minor"
    /\ name(Patch) = "Patch" /\ name(BumpNone) = "None"
    /\ \A a, b \in BumpLevel : name(a) = name(b) => a = b
    /\ ret.op = "name" => "BumpLevel::" \o ret.val = ret.arg
    /\ ret.op = "bump_level.name" =>
         "BumpLevel::" \o ret.val = BumpTable(ret.arg)

C8_Witness ==
    /\ ret.op = "bump_level.name"
    /\ ret.arg = Meta
    /\ ret.val = "None"

\* C9: description uses the bare-label table for every category:
\* "Breaking change", "New functionality", "Bugfix",
\* "Cleanup / Performance", "Meta"; no description is a label of the
\* SemVer-annotated table.
C9_DescriptionBareTable ==
    /\ \A c \in CommitType :
         /\ description(c) = BareLabel(c)
         /\ \A d \in CommitType : \A sfx \in SemVerSuffixes :
              description(c) # BareLabel(d) \o sfx
    /\ ret.op = "description" =>
         /\ ret.val = BareLabel(ret.arg)
         /\ \A d \in CommitType : \A sfx \in SemVerSuffixes :
              ret.val # BareLabel(d) \o sfx

C9_Witness ==
    /\ ret.op = "description"
    /\ ret.arg = Breaking
    /\ ret.val = "Breaking change"

\* C10: the iterator is a single-pass cursor driven by navigation: a new
\* instance is positioned at Some(first_variant()); next() on Some(c)
\* returns Some(c) and moves to next_variant(c); next() on None returns None
\* and leaves the position; no position moves backwards; once exhausted the
\* last category yielded is last_variant(); a call on one instance leaves
\* every other instance alone.
C10_SinglePassCursor ==
    /\ [](\A i \in DOMAIN iters :
            /\ iters[i] \in CommitTypeIterator
            /\ iters[i].current = None =>
                 /\ Yielded(i) # << >>
                 /\ Yielded(i)[Len(Yielded(i))] = Some(last_variant))
    /\ [][/\ \A i \in IterIds :
               (i \notin DOMAIN iters /\ i \in DOMAIN iters') =>
                   /\ iters'[i].current = Some(first_variant)
                   /\ \A j \in DOMAIN iters : iters'[j] = iters[j]
          /\ ret'.op = "next" =>
               LET i == ret'.arg
               IN  /\ iters[i].current # None =>
                        /\ ret'.val = iters[i].current
                        /\ iters'[i].current =
                             next_variant(iters[i].current[1])
                   /\ iters[i].current = None =>
                        /\ ret'.val = None
                        /\ iters'[i] = iters[i]
                   /\ \A j \in DOMAIN iters \ {i} : iters'[j] = iters[j]
          /\ \A i \in DOMAIN iters :
               /\ i \in DOMAIN iters'
               /\ Pos(iters'[i]) >= Pos(iters[i])]_vars

C10_Witness ==
    /\ ret.op = "next"
    /\ ret.val = None
    /\ \E i, j \in DOMAIN iters :
         /\ ret.arg = i
         /\ iters[i].current = None
         /\ results[i][Len(results[i]) - 1] = Some(last_variant)
         /\ iters[j].current = Some(Feature)

=============================================================================
